---- MODULE Spec2Model ----
(***************************************************************************)
(* Model of the bounded, domain-scoped crawler of src/testing.py:          *)
(* DeepWebScraper.normalize_url, get_domain, normalize_internal_url,       *)
(* extract_links, scrape_url and deep_crawl.                               *)
(*                                                                         *)
(* A URL string is modelled by the three parts the code looks at: the      *)
(* scheme prefix, the network location (urlparse().netloc) and the path.   *)
(* TLC has no character-level string operations, so the regular expression *)
(* of normalize_url is modelled by the classes of hosts and paths that it  *)
(* accepts.                                                                *)
(***************************************************************************)
EXTENDS Integers, Sequences, FiniteSets, TLC

VARIABLES
    start_url,              \* argument of deep_crawl
    max_depth,              \* DeepWebScraper.max_depth
    max_pages_per_domain,   \* DeepWebScraper.max_pages_per_domain
    pc,                     \* position of deep_crawl: "idle", "loop", "done"
    visited_urls,           \* local set visited_urls
    urls_to_crawl,          \* local list urls_to_crawl of <<url, depth>>
    domain_page_count,      \* local counter domain_page_count
    all_results,            \* the dictionary deep_crawl builds and returns
    scrape_log,             \* history: one record per scrape_url call
    perform_deep_crawl,     \* argument of search_and_deep_scrape
    session_pc,             \* position of search_and_deep_scrape
    search_results,         \* what search_engine.search returned
    search_end,             \* history: how the search request ended
    tasks,                  \* scrape_tasks: one coroutine's state per URL
    session_result,         \* what search_and_deep_scrape returned
    current,                \* the <<url, depth>> deep_crawl popped and is scraping
    fetch_pc,               \* the await scrape_url is at, "none" outside scrape_url
    hung,                   \* the awaited operation will never complete
    playwright,             \* crawler.playwright: "none", "started", "stopped"
    browser,                \* crawler.browser: "none", "open", "closed"
    context,                \* context of arun: "none", "open", "closed"
    pending,                \* what is on its way out of the with block
    loaded,                 \* how page.goto ended and the html it brought
    last_return,            \* history: the latest return of scrape_url
    site,                   \* the crawled site: the html served at each URL
    analysis_input,         \* argument results of analyze_deep_scrape_results
    analysis,               \* what analyze_deep_scrape_results returned
    max_paragraphs,         \* argument max_paragraphs of SearchOrchestrator.execute
    search_data,            \* what searcher.search returned to execute
    execute_pc,             \* where execute and _scrape_results are
    future_to_url,          \* the futures submitted, in dictionary order
    scraped_data            \* the list _scrape_results is building

\* one deep_crawl call
crawlVars == <<start_url, pc, visited_urls, urls_to_crawl, domain_page_count,
               all_results, scrape_log>>

\* one search_and_deep_scrape call
sessionVars ==
    <<perform_deep_crawl, session_pc, search_results, search_end, tasks, session_result>>

\* one scrape_url call and its AsyncWebCrawler
fetchVars == <<current, fetch_pc, hung, playwright, browser, context, pending, loaded,
               last_return>>

\* the site a crawl runs against
siteVars == <<site>>

\* what the crawl, the session and the page load leave alone
\* one analyze_deep_scrape_results call
analysisVars == <<analysis_input, analysis>>

\* one SearchOrchestrator.execute call
poolVars == <<max_paragraphs, search_data, execute_pc, future_to_url, scraped_data>>

laterVars == <<siteVars, analysisVars, poolVars>>

vars == <<max_depth, max_pages_per_domain, crawlVars, sessionVars, fetchVars, laterVars>>

\* ------------------------------------------------------------------ bounds

MaxDepthBound == 3
MaxPagesBound == 3

\* -------------------------------------------------------------------- URLs

Url(s, n, p) == [scheme |-> s, netloc |-> n, path |-> p]

A == Url("https://", "a.com", "")
B == Url("https://", "a.com", "/b")
C == Url("https://", "a.com", "/c")
D == Url("https://", "a.com", "/d")
\* a same-domain link whose path holds a blank: "https://a.com/x y"
W == Url("https://", "a.com", "/x y")
\* a link to another network authority
X == Url("https://", "b.com", "/x")

\* a link with a scheme that is not http or https but starts with the
\* letters http: "httpx://a.com/b"
Hx == Url("httpx://", "a.com", "/b")

\* "a.com", the seed given without a scheme
SeedBare == Url("", "a.com", "")
\* "not a url"
SeedBad == Url("", "not a url", "")

Seeds == {A, SeedBare, SeedBad}

\* hosts matching (?:[A-Za-z0-9](?:[A-Za-z0-9-]{0,61}[A-Za-z0-9])?\.)+[A-Za-z]{2,}
PatternHosts == {"a.com", "b.com"}
\* paths matching (?:/[^/\s]*)*
PatternPaths ==
    {"", "/b", "/c", "/d", "/x", "/page1", "/report.pdf"}
    \cup {"/1", "/2", "/3", "/4", "/5"}
    \cup {"/1/1", "/1/2", "/1/3", "/1/4", "/1/5"}
    \cup {"/2/1", "/2/2", "/2/3", "/2/4", "/2/5"}
    \cup {"/3/1", "/3/2", "/3/3", "/3/4", "/3/5"}
    \cup {"/4/1", "/4/2", "/4/3", "/4/4", "/4/5"}
    \cup {"/5/1", "/5/2", "/5/3", "/5/4", "/5/5"}

\* url_pattern.match(url)
MatchesUrlPattern(url) ==
    /\ url.scheme \in {"", "http://", "https://"}
    /\ url.netloc \in PatternHosts
    /\ url.path \in PatternPaths

\* normalize_url(url) -> (is_valid, normalized_url)
normalize_url(url) ==
    IF ~MatchesUrlPattern(url)
    THEN <<FALSE, url>>
    ELSE IF url.scheme # "http://" /\ url.scheme # "https://"
         THEN <<TRUE, [url EXCEPT !.scheme = "https://"]>>
         ELSE <<TRUE, url>>

\* variant: every URL has the same domain
get_domain_Blind(url) == ""

\* get_domain(url): urlparse(url).netloc, which is empty without a scheme
get_domain(url) == IF url.scheme = "" THEN "" ELSE url.netloc

is_same_domain(url1, url2) == get_domain(url1) = get_domain(url2)

\* ------------------------------------------------------------------- links

\* hrefs of anchors: absolute URLs and the references "#top",
\* "mailto:x@y.com", "/page1", "report.pdf" and ""
HrefTop    == Url("", "", "#top")
HrefMailto == Url("mailto:", "", "x@y.com")
HrefPage1  == Url("", "", "/page1")
HrefPdf    == Url("", "", "report.pdf")
HrefEmpty  == Url("", "", "")

\* href.startswith('#')
FragmentRefs == {"#top"}
\* path references without a leading slash, and what urljoin makes of them
\* against a base whose path has at most one segment
RelativeRefs == {"report.pdf"}
MergedPath(p) == IF p = "report.pdf" THEN "/report.pdf" ELSE p
\* paths ending in one of file_extensions
FilePaths == {"/report.pdf"}

\* urllib.parse.urljoin(base_url, href)
urljoin(base_url, href) ==
    IF href.scheme # "" THEN href
    ELSE IF href.netloc # "" THEN [href EXCEPT !.scheme = base_url.scheme]
    ELSE IF href.path = "" \/ href.path \in FragmentRefs THEN base_url
    ELSE IF href.path \in RelativeRefs
         THEN [base_url EXCEPT !.path = MergedPath(href.path)]
         ELSE [base_url EXCEPT !.path = href.path]

None == Url("None", "", "")

\* absolute_url.startswith('http')
StartsWithHttp(url) == url.scheme \in {"http://", "https://", "httpx://"}

\* normalize_internal_url(base_url, href) -> absolute url or None
normalize_internal_url(base_url, href) ==
    IF \/ href = HrefEmpty
       \/ (href.scheme = "" /\ href.netloc = "" /\ href.path \in FragmentRefs)
       \/ href.scheme \in {"javascript:", "mailto:", "tel:"}
    THEN None
    ELSE LET absolute_url == urljoin(base_url, href)
         IN  IF ~StartsWithHttp(absolute_url) THEN None
             ELSE IF absolute_url.path \in FilePaths THEN None
             ELSE absolute_url

\* the list comprehension of extract_links: the anchors that survive, in
\* document order
AnchorLinks(html, base_url) ==
    LET Norm(i) == normalize_internal_url(base_url, html[i])
        Keep(i) == Norm(i) # None /\ is_same_domain(base_url, Norm(i))
        F[i \in 0..Len(html)] ==
            IF i = 0 THEN <<>>
            ELSE IF Keep(i) THEN Append(F[i-1], Norm(i)) ELSE F[i-1]
    IN  F[Len(html)]

Range(s) == {s[i] : i \in 1..Len(s)}

\* every list holding each element of S once
ListsOf(S) ==
    {s \in [1..Cardinality(S) -> S] : \A i, j \in 1..Cardinality(S) : s[i] = s[j] => i = j}

\* list(set(links)): the iteration order of a set of strings depends on the
\* process's string hash seed, so any order of the distinct links can come back
ListOfSet(links) == ListsOf(Range(links))

\* extract_links(html, base_url): the lists it can return
extract_links(html, base_url) == ListOfSet(AnchorLinks(html, base_url))

\* -------------------------------------------------------------- scrape_url

\* the documents a page load can bring back: the anchors of the (truncated)
\* html, in document order
Htmls ==
    { <<>>,
      <<A>>,
      <<B>>,
      <<B, C>>,
      <<C, B, C>>,
      <<X, W, D>>,
      <<HrefTop, HrefMailto, HrefPage1, HrefPdf>>,
      <<Hx>> }

InvalidResult(url) ==
    [success |-> FALSE, url |-> url, error |-> "Invalid URL format"]

TimeoutResult(url) ==
    [success |-> FALSE, url |-> url, error |-> "Operation timed out"]

ErrorResult(url) ==
    [success |-> FALSE, url |-> url, error |-> "str(e)"]

\* response_data of a page load that brought back one of htmls
SuccessResultsOf(url, htmls) ==
    {[success |-> TRUE, url |-> url, html |-> html, links |-> links] :
        <<html, links>> \in UNION {{<<h, l>> : l \in extract_links(h, url)} : h \in htmls}}

\* response_data of a page load that brought back html
SuccessResults(url) == SuccessResultsOf(url, Htmls)

\* variant: the validation result is not looked at
scrape_url_Unvalidated(url) ==
    LET normalized_url == normalize_url(url)[2]
    IN  {[result |-> r, launched |-> TRUE] :
            r \in SuccessResults(normalized_url)
                  \cup {TimeoutResult(normalized_url), ErrorResult(normalized_url)}}

\* The outcomes of scrape_url(url): the dictionary returned, and whether the
\* browser was started (async with AsyncWebCrawler) on the way.
scrape_url(url) ==
    LET is_valid       == normalize_url(url)[1]
        normalized_url == normalize_url(url)[2]
    IN  IF ~is_valid
        THEN {[result |-> InvalidResult(url), launched |-> FALSE]}
        ELSE {[result |-> r, launched |-> TRUE] :
                r \in SuccessResults(normalized_url)
                      \cup {TimeoutResult(normalized_url), ErrorResult(normalized_url)}}

\* -------------------------------------------------------------- deep_crawl

\* no search_and_deep_scrape call is under way
SessionIdle ==
    /\ perform_deep_crawl = TRUE
    /\ session_pc = "idle"
    /\ search_results = <<>>
    /\ search_end = "none"
    /\ tasks = <<>>
    /\ session_result = [success |-> FALSE, error |-> "not returned"]

NoResults == [success |-> FALSE, url |-> None, error |-> "not returned"]

NoPage == [status |-> "none", html |-> <<>>]

NoReturn ==
    [url |-> None, success |-> FALSE, error |-> "", links |-> FALSE, load |-> "none",
     playwright |-> "none", browser |-> "none", context |-> "none"]

\* no fixed site is crawled
SiteIdle == site = <<>>

NoAnalysis == [summary |-> "not returned"]

\* no analyze_deep_scrape_results call is under way
AnalysisIdle ==
    /\ analysis_input = [scraped_content |-> <<>>]
    /\ analysis = NoAnalysis

\* no SearchOrchestrator.execute call is under way
PoolIdle ==
    /\ max_paragraphs = 0
    /\ search_data = [results |-> <<>>]
    /\ execute_pc = "none"
    /\ future_to_url = <<>>
    /\ scraped_data = <<>>

LaterIdle == SiteIdle /\ AnalysisIdle /\ PoolIdle

\* no scrape_url call is modelled await by await
FetchIdle ==
    /\ current = <<None, 0>>
    /\ fetch_pc = "none"
    /\ hung = FALSE
    /\ playwright = "none"
    /\ browser = "none"
    /\ context = "none"
    /\ pending = "none"
    /\ loaded = NoPage
    /\ last_return = NoReturn

Init ==
    /\ start_url \in Seeds
    /\ max_depth \in 0..MaxDepthBound
    /\ max_pages_per_domain \in (0..MaxPagesBound) \cup {10}
    /\ pc = "idle"
    /\ visited_urls = {}
    /\ urls_to_crawl = <<>>
    /\ domain_page_count = 0
    /\ all_results = NoResults
    /\ scrape_log = <<>>
    /\ SessionIdle
    /\ FetchIdle
    /\ LaterIdle

Config == <<start_url, max_depth, max_pages_per_domain>>

\* all_results as built before the loop
InitialResults(normalized_url, domain) ==
    [success |-> TRUE, start_url |-> normalized_url, domain |-> domain, pages |-> <<>>]

\* deep_crawl, invalid seed: the early return
DeepCrawlInvalid ==
    /\ pc = "idle"
    /\ ~normalize_url(start_url)[1]
    /\ all_results' = InvalidResult(start_url)
    /\ pc' = "done"
    /\ UNCHANGED <<Config, visited_urls, urls_to_crawl, domain_page_count, scrape_log>>

\* deep_crawl, valid seed: the locals before the loop
DeepCrawlStart ==
    /\ pc = "idle"
    /\ normalize_url(start_url)[1]
    /\ LET normalized_url == normalize_url(start_url)[2]
           domain         == get_domain(normalized_url)
       IN  /\ visited_urls' = {}
           /\ urls_to_crawl' = << <<normalized_url, 0>> >>
           /\ domain_page_count' = 0
           /\ all_results' = InitialResults(normalized_url, domain)
    /\ pc' = "loop"
    /\ UNCHANGED <<Config, scrape_log>>

\* variant: the budget compared with <=
LoopConditionOffByOne ==
    /\ urls_to_crawl # <<>>
    /\ domain_page_count <= max_pages_per_domain

\* variant: the loop runs until the queue is empty
LoopConditionNoBudget == urls_to_crawl # <<>>

\* while urls_to_crawl and domain_page_count < self.max_pages_per_domain
LoopCondition ==
    /\ urls_to_crawl # <<>>
    /\ domain_page_count < max_pages_per_domain

\* the same test on the locals of one of several deep_crawl coroutines
LoopConditionOf(queue, count) ==
    /\ queue # <<>>
    /\ count < max_pages_per_domain

\* variant: no popped URL is taken as visited
AlreadyVisitedNever(current_url) == FALSE

\* if current_url in visited_urls
AlreadyVisited(current_url) == current_url \in visited_urls

\* variant: no page's links are followed
BelowMaxDepthNever(depth) == FALSE

\* variant: the depth compared with <=
BelowMaxDepthOffByOne(depth) == depth <= max_depth

\* if depth < self.max_depth
BelowMaxDepth(depth) == depth < max_depth

\* if link not in visited_urls and self.get_domain(link) == domain
LinkWanted(link, visited, domain) ==
    link \notin visited /\ get_domain(link) = domain

\* the queue entries the inner for loop appends for one page
NewEntries(links, visited, domain, depth) ==
    LET F[i \in 0..Len(links)] ==
            IF i = 0 THEN <<>>
            ELSE IF LinkWanted(links[i], visited, domain)
                 THEN Append(F[i-1], <<links[i], depth + 1>>)
                 ELSE F[i-1]
    IN  F[Len(links)]

\* what one page adds to the queue
ChildrenOf(result, visited, domain, depth) ==
    IF result.success /\ BelowMaxDepth(depth)
    THEN NewEntries(result.links, visited, domain, depth)
    ELSE <<>>

\* variant: a failed page's result is kept too
PagesAfterAlways(pages, result) == Append(pages, result)

\* all_results["pages"] after the page's result came back
PagesAfter(pages, result) ==
    IF result.success THEN Append(pages, result) ELSE pages

\* variant: no page is counted
CountAfterNever(count, result) == count

\* domain_page_count after the page's result came back
CountAfter(count, result) ==
    IF result.success THEN count + 1 ELSE count

\* variant: the crawl's success follows the last page's
ResultsAfterLastOutcome(results, result) ==
    [results EXCEPT !.pages = PagesAfter(@, result), !.success = result.success]

\* all_results after the page's result came back
ResultsAfter(results, result) ==
    [results EXCEPT !.pages = PagesAfter(@, result)]

\* variant: the entries go to the front of the queue
PrependAll(queue, entries) == entries \o queue

\* urls_to_crawl.append for each entry, in order
AppendAll(queue, entries) == queue \o entries

\* what the history keeps of a returned dictionary's error
ErrorOf(result) == IF result.success THEN "" ELSE result.error

\* one iteration that pops a URL already visited: continue
LoopSkip ==
    /\ pc = "loop"
    /\ LoopCondition
    /\ AlreadyVisited(Head(urls_to_crawl)[1])
    /\ urls_to_crawl' = Tail(urls_to_crawl)
    /\ UNCHANGED <<Config, pc, visited_urls, domain_page_count, all_results, scrape_log>>

\* one iteration that scrapes the popped URL
LoopScrape ==
    /\ pc = "loop"
    /\ LoopCondition
    /\ LET current_url == Head(urls_to_crawl)[1]
           depth       == Head(urls_to_crawl)[2]
       IN  /\ ~AlreadyVisited(current_url)
           /\ visited_urls' = visited_urls \cup {current_url}
           /\ \E out \in scrape_url(current_url) :
                LET result   == out.result
                    children == ChildrenOf(result, visited_urls', all_results.domain, depth)
                IN  /\ domain_page_count' = CountAfter(domain_page_count, result)
                    /\ all_results' = ResultsAfter(all_results, result)
                    /\ urls_to_crawl' = AppendAll(Tail(urls_to_crawl), children)
                    /\ scrape_log' = Append(scrape_log,
                         [url |-> current_url, depth |-> depth,
                          success |-> result.success, error |-> ErrorOf(result),
                          launched |-> out.launched,
                          enqueued |-> children])
    /\ UNCHANGED <<Config, pc>>

\* the loop condition is false: return all_results
DeepCrawlReturn ==
    /\ pc = "loop"
    /\ ~LoopCondition
    /\ pc' = "done"
    /\ UNCHANGED <<Config, visited_urls, urls_to_crawl, domain_page_count,
                   all_results, scrape_log>>

Next ==
    \/ DeepCrawlInvalid /\ UNCHANGED <<sessionVars, fetchVars, laterVars>>
    \/ DeepCrawlStart /\ UNCHANGED <<sessionVars, fetchVars, laterVars>>
    \/ LoopSkip /\ UNCHANGED <<sessionVars, fetchVars, laterVars>>
    \/ LoopScrape /\ UNCHANGED <<sessionVars, fetchVars, laterVars>>
    \/ DeepCrawlReturn /\ UNCHANGED <<sessionVars, fetchVars, laterVars>>

Spec == Init /\ [][Next]_vars

\* deep_crawl is a coroutine the event loop keeps running, each scrape_url
\* call returning: a step that can be taken is taken
LiveMaxDepth == 2
LiveMaxPages == 3

LiveInit ==
    /\ Init
    /\ max_depth <= LiveMaxDepth
    /\ max_pages_per_domain <= LiveMaxPages

SpecLive == LiveInit /\ [][Next]_vars /\ WF_vars(Next)

\* -------------------------------------------------- search_and_deep_scrape

MaxSearchResults == 2
SessionMaxDepth == 1
SessionMaxPages == 2

\* the URLs a search result can carry
SearchUrls == {A, B, SeedBad}

\* what search_engine.search can return: [] after a failed or empty search,
\* else up to num_results results, of which the model keeps the url
SearchOutcomes == UNION {[1..n -> SearchUrls] : n \in 0..MaxSearchResults}

\* the documents the pages of the searched sites bring back
SessionHtmls == { <<>>, <<A, B>> }

\* what the awaited page load of scrape_url(url) can end in, url being valid
FetchOutcomes(url) ==
    SuccessResultsOf(url, SessionHtmls) \cup {TimeoutResult(url), ErrorResult(url)}

\* a coroutine of scrape_tasks before its first step, with the locals that
\* deep_crawl will hold; log is the history of the page loads it awaited
NewTask(url) ==
    [pc |-> "created", url |-> url, visited_urls |-> {}, urls_to_crawl |-> <<>>,
     current |-> <<None, 0>>, domain_page_count |-> 0, all_results |-> NoResults,
     log |-> <<>>]

\* variant: one visited set for all the coroutines
VisitedShared(ts, t) == UNION {ts[u].visited_urls : u \in DOMAIN ts}

\* visited_urls as coroutine t sees it: a local of its deep_crawl call
VisitedBy(ts, t) == ts[t].visited_urls

\* deep_crawl's handling of the dictionary scrape_url returned for the popped
\* entry: count and keep a successful page, queue its links
AfterScrape(ts, t, result) ==
    LET st       == ts[t]
        children == ChildrenOf(result, VisitedBy(ts, t), st.all_results.domain,
                               st.current[2])
    IN  [ts EXCEPT ![t] =
            [st EXCEPT !.domain_page_count = CountAfter(@, result),
                       !.all_results = ResultsAfter(@, result),
                       !.urls_to_crawl = AppendAll(@, children),
                       !.current = <<None, 0>>]]

\* deep_crawl of coroutine t from the loop test up to its next suspension (the
\* page load awaited inside scrape_url) or its return; nothing else runs in
\* between on the event loop
RECURSIVE RunToAwait(_, _)
RunToAwait(ts, t) ==
    LET st == ts[t]
    IN  IF ~LoopConditionOf(st.urls_to_crawl, st.domain_page_count)
        THEN [ts EXCEPT ![t].pc = "done"]
        ELSE LET entry  == Head(st.urls_to_crawl)
                 popped == [ts EXCEPT ![t].urls_to_crawl = Tail(@)]
             IN  IF entry[1] \in VisitedBy(ts, t)
                 THEN RunToAwait(popped, t)
                 ELSE LET marked == [popped EXCEPT ![t].visited_urls = @ \cup {entry[1]},
                                                   ![t].current = entry]
                      IN  IF ~normalize_url(entry[1])[1]
                          THEN RunToAwait(AfterScrape(marked, t, InvalidResult(entry[1])), t)
                          ELSE [marked EXCEPT ![t].pc = "scraping"]

\* the first step of coroutine t: deep_crawl(url) up to its first suspension,
\* or scrape_url(url) up to its page load
Begin(ts, t) ==
    LET st             == ts[t]
        is_valid       == normalize_url(st.url)[1]
        normalized_url == normalize_url(st.url)[2]
    IN  IF ~is_valid
        THEN [ts EXCEPT ![t].pc = "done", ![t].all_results = InvalidResult(st.url)]
        ELSE IF perform_deep_crawl
        THEN RunToAwait(
                [ts EXCEPT ![t].urls_to_crawl = << <<normalized_url, 0>> >>,
                           ![t].all_results =
                               InitialResults(normalized_url, get_domain(normalized_url))],
                t)
        ELSE [ts EXCEPT ![t].pc = "scraping", ![t].current = <<normalized_url, 0>>]

\* coroutine t resumes with the dictionary its scrape_url call returns
Resume(ts, t, result) ==
    LET logged == [ts EXCEPT ![t].log = Append(@, result)]
    IN  IF perform_deep_crawl
        THEN RunToAwait(AfterScrape(logged, t, result), t)
        ELSE [logged EXCEPT ![t].pc = "done", ![t].all_results = result,
                            ![t].current = <<None, 0>>]

\* no deep_crawl call outside the session is under way
CrawlIdle ==
    /\ start_url = A
    /\ pc = "idle"
    /\ visited_urls = {}
    /\ urls_to_crawl = <<>>
    /\ domain_page_count = 0
    /\ all_results = NoResults
    /\ scrape_log = <<>>

\* DeepScraperService(max_depth, max_pages_per_domain) and the call
\* search_and_deep_scrape(query, num_results, perform_deep_crawl), suspended
\* in search_engine.search
SessionInit ==
    /\ CrawlIdle
    /\ FetchIdle
    /\ LaterIdle
    /\ max_depth \in 0..SessionMaxDepth
    /\ max_pages_per_domain \in 1..SessionMaxPages
    /\ perform_deep_crawl \in BOOLEAN
    /\ session_pc = "search"
    /\ search_results = <<>>
    /\ search_end = "none"
    /\ tasks = <<>>
    /\ session_result = [success |-> FALSE, error |-> "not returned"]

SessionConfig == <<max_depth, max_pages_per_domain, perform_deep_crawl>>

\* variant: an empty result list is not told apart
NoSearchResultsNever(results) == FALSE

\* if not search_results
NoSearchResults(results) == results = <<>>

\* the dictionary returned when the search brought nothing
NoResultsFound ==
    [success |-> FALSE, error |-> "No search results found",
     search_results |-> <<>>, scraped_content |-> <<>>]

\* urls = [result["url"] for result in search_results]
urls == search_results

\* how the request of DuckDuckGoSearch.search can end: the page is fetched and
\* parsed, session.get raises a client error or times out, raise_for_status
\* raises for a status of 400 or more, or _parse_results raises (an anchor
\* without href, for one)
SearchEndings ==
    {"parsed", "transport error", "timeout", "HTTP error status", "parsing error"}

\* variant: only the errors of the request are handled
SearchExceptTransportOnly(ending) == ending \in {"transport error", "timeout"}

\* except Exception around the request and the parsing in search
SearchExcept(ending) == TRUE

\* DuckDuckGoSearch.search(query, num_results): the list returned, or the
\* exception passed on, when the request ends in ending and the parser would
\* return parsed
search(ending, parsed) ==
    IF ending = "parsed" THEN [raised |-> FALSE, results |-> parsed]
    ELSE IF SearchExcept(ending) THEN [raised |-> FALSE, results |-> <<>>]
    ELSE [raised |-> TRUE, results |-> <<>>]

\* the search returns: the early return, or one coroutine per URL handed to
\* asyncio.gather; an exception of the search would leave
\* search_and_deep_scrape
SessionSearch ==
    /\ session_pc = "search"
    /\ \E ending \in SearchEndings, parsed \in SearchOutcomes :
        LET returned == search(ending, parsed)
            results  == returned.results
        IN  /\ ending # "parsed" => parsed = <<>>
            /\ search_end' = ending
            /\ search_results' = results
            /\ IF returned.raised
               THEN /\ session_pc' = "raised"
                    /\ UNCHANGED <<tasks, session_result>>
               ELSE IF NoSearchResults(results)
               THEN /\ session_result' = NoResultsFound
                    /\ session_pc' = "done"
                    /\ UNCHANGED tasks
               ELSE /\ tasks' = [i \in DOMAIN results |-> NewTask(results[i])]
                    /\ session_pc' = "gather"
                    /\ UNCHANGED session_result
    /\ UNCHANGED <<SessionConfig, crawlVars, fetchVars, laterVars>>

\* the event loop runs the first step of each task in the order gather created
\* them, before any awaited page load completes
NextToBegin(t) ==
    /\ t \in DOMAIN tasks
    /\ tasks[t].pc = "created"
    /\ \A u \in 1..(t-1) : tasks[u].pc # "created"

AllBegun == \A t \in DOMAIN tasks : tasks[t].pc # "created"

TaskBegin(t) ==
    /\ NextToBegin(t)
    /\ tasks' = Begin(tasks, t)
    /\ UNCHANGED <<SessionConfig, crawlVars, fetchVars, laterVars, session_pc,
                   search_results, search_end, session_result>>

\* the scrape_url call task t is suspended in returns its dictionary
TaskScrapeReturns(t) ==
    /\ t \in DOMAIN tasks
    /\ AllBegun
    /\ tasks[t].pc = "scraping"
    /\ \E result \in FetchOutcomes(tasks[t].current[1]) :
        tasks' = Resume(tasks, t, result)
    /\ UNCHANGED <<SessionConfig, crawlVars, fetchVars, laterVars, session_pc,
                   search_results, search_end, session_result>>

\* variant: gather called without return_exceptions
ReturnExceptionsOff == FALSE

\* asyncio.gather(*scrape_tasks, return_exceptions=True)
ReturnExceptions == TRUE

\* an exception leaves task t: the statements of deep_crawl and scrape_url
\* outside scrape_url's try block (the print calls among them) can raise.
\* gather keeps it as the task's result; without return_exceptions it would
\* pass it on to search_and_deep_scrape at once.
TaskRaises(t) ==
    /\ session_pc = "gather"
    /\ \/ NextToBegin(t)
       \/ t \in DOMAIN tasks /\ AllBegun /\ tasks[t].pc = "scraping"
    /\ tasks' = [tasks EXCEPT ![t].pc = "raised"]
    /\ session_pc' = IF ReturnExceptions THEN session_pc ELSE "raised"
    /\ UNCHANGED <<SessionConfig, crawlVars, fetchVars, laterVars, search_results,
                   search_end, session_result>>

\* variant: the results are taken from the last task to the first
ProcessedResultMirrored(t) ==
    LET u == Len(tasks) + 1 - t
    IN  IF tasks[u].pc = "raised"
        THEN [success |-> FALSE, url |-> urls[u], error |-> "str(result)"]
        ELSE tasks[u].all_results

\* the loop over scraped_results: an exception becomes a failed entry
ProcessedResult(t) ==
    IF tasks[t].pc = "raised"
    THEN [success |-> FALSE, url |-> urls[t], error |-> "str(result)"]
    ELSE tasks[t].all_results

\* variant: the session succeeds when some scrape did
SessionSuccessAny(processed_results) ==
    \E t \in DOMAIN processed_results : processed_results[t].success

\* "success": True in the dictionary returned after gather; the count of
\* successful scrapes is only printed
SessionSuccess(processed_results) == TRUE

\* every task has finished: gather returns and the session dictionary is built
SessionGather ==
    /\ session_pc = "gather"
    /\ \A t \in DOMAIN tasks : tasks[t].pc \in {"done", "raised"}
    /\ session_result' =
         [success |-> SessionSuccess([t \in DOMAIN tasks |-> ProcessedResult(t)]),
          deep_crawl_enabled |-> perform_deep_crawl,
          search_results |-> search_results,
          scraped_content |-> [t \in DOMAIN tasks |-> ProcessedResult(t)]]
    /\ session_pc' = "done"
    /\ UNCHANGED <<SessionConfig, crawlVars, fetchVars, laterVars, search_results,
                   search_end, tasks>>

\* variant: only the timeout has a handler
CaughtOnlyTimeoutError(e) == e = "TimeoutError"

\* variant: CancelledError derives from Exception
CaughtByExceptExceptionAll(e) == TRUE

\* except Exception (and except asyncio.TimeoutError before it) in scrape_url:
\* asyncio.CancelledError derives from BaseException and passes through
CaughtByExceptException(e) == e # "CancelledError"

\* Task.cancel() on task t: a task not yet finished has CancelledError thrown
\* in where it is suspended
RECURSIVE CancelFrom(_, _)
CancelFrom(ts, t) ==
    IF t > Len(ts) THEN ts
    ELSE IF ts[t].pc = "created"
         THEN CancelFrom([ts EXCEPT ![t].pc = "cancelled"], t + 1)
    ELSE IF ts[t].pc = "scraping"
         THEN IF CaughtByExceptException("CancelledError")
              THEN CancelFrom(Resume(ts, t, ErrorResult(ts[t].current[1])), t + 1)
              ELSE CancelFrom([ts EXCEPT ![t].pc = "cancelled"], t + 1)
    ELSE CancelFrom(ts, t + 1)

\* the caller cancels search_and_deep_scrape while it awaits gather: gather
\* cancels its children and CancelledError leaves search_and_deep_scrape
SessionCancel ==
    /\ session_pc = "gather"
    /\ tasks' = CancelFrom(tasks, 1)
    /\ session_pc' = "cancelled"
    /\ UNCHANGED <<SessionConfig, crawlVars, fetchVars, laterVars, search_results,
                   search_end, session_result>>

SessionNext ==
    \/ SessionSearch
    \/ \E t \in 1..MaxSearchResults : TaskBegin(t)
    \/ \E t \in 1..MaxSearchResults : TaskScrapeReturns(t)
    \/ \E t \in 1..MaxSearchResults : TaskRaises(t)
    \/ SessionGather
    \/ SessionCancel

SpecSession == SessionInit /\ [][SessionNext]_vars

\* ------------------------------------------- scrape_url, await by await

FetchMaxDepth == 2
FetchMaxPages == 3

\* the documents the pages of the crawled site bring back
FetchHtmls == { <<>>, <<B, C>>, <<C>> }

\* how an awaited browser operation can end
AwaitOutcomes == {"completes", "raises", "never completes"}

\* one deep_crawl(A) with scrape_url followed through its awaits
FetchInit ==
    /\ start_url = A
    /\ max_depth \in 0..FetchMaxDepth
    /\ max_pages_per_domain \in 1..FetchMaxPages
    /\ pc = "idle"
    /\ visited_urls = {}
    /\ urls_to_crawl = <<>>
    /\ domain_page_count = 0
    /\ all_results = NoResults
    /\ scrape_log = <<>>
    /\ SessionIdle
    /\ FetchIdle
    /\ LaterIdle

Resources == <<playwright, browser, context>>

\* deep_crawl pops an entry not yet visited and calls scrape_url, which goes
\* as far as AsyncWebCrawler.__aenter__'s first await; an invalid URL comes
\* back at once
ScrapeCall ==
    /\ pc = "loop"
    /\ fetch_pc = "none"
    /\ LoopCondition
    /\ LET entry == Head(urls_to_crawl)
       IN  /\ ~AlreadyVisited(entry[1])
           /\ visited_urls' = visited_urls \cup {entry[1]}
           /\ urls_to_crawl' = Tail(urls_to_crawl)
           /\ current' = entry
           /\ IF normalize_url(entry[1])[1]
              THEN /\ fetch_pc' = "playwright.start"
                   /\ pending' = "none"
              ELSE /\ fetch_pc' = "exit"
                   /\ pending' = "invalid"
    /\ hung' = FALSE
    /\ playwright' = "none"
    /\ browser' = "none"
    /\ context' = "none"
    /\ loaded' = NoPage
    /\ UNCHANGED <<Config, pc, domain_page_count, all_results, scrape_log, sessionVars, laterVars,
                   last_return>>

\* what the steps of one scrape_url call leave alone
FetchFrame ==
    UNCHANGED <<Config, pc, visited_urls, urls_to_crawl, domain_page_count, all_results,
                scrape_log, sessionVars, laterVars, current, last_return>>

\* __aenter__: self.playwright = await async_playwright().start(). When
\* __aenter__ raises, __aexit__ is not called.
PlaywrightStart ==
    /\ fetch_pc = "playwright.start" /\ ~hung
    /\ \E outcome \in AwaitOutcomes :
        /\ playwright' = IF outcome = "completes" THEN "started" ELSE playwright
        /\ fetch_pc' = CASE outcome = "completes" -> "launch"
                         [] outcome = "raises" -> "exit"
                         [] OTHER -> fetch_pc
        /\ pending' = IF outcome = "raises" THEN "error" ELSE pending
        /\ hung' = (outcome = "never completes")
    /\ UNCHANGED <<browser, context, loaded>>
    /\ FetchFrame

\* __aenter__: self.browser = await browser_type.launch(...); then the with
\* body starts wait_for's timer and arun
BrowserLaunch ==
    /\ fetch_pc = "launch" /\ ~hung
    /\ \E outcome \in AwaitOutcomes :
        /\ browser' = IF outcome = "completes" THEN "open" ELSE browser
        /\ fetch_pc' = CASE outcome = "completes" -> "new_context"
                         [] outcome = "raises" -> "exit"
                         [] OTHER -> fetch_pc
        /\ pending' = IF outcome = "raises" THEN "error" ELSE pending
        /\ hung' = (outcome = "never completes")
    /\ UNCHANGED <<playwright, context, loaded>>
    /\ FetchFrame

\* arun: context = await self.browser.new_context(), before the try
NewContext ==
    /\ fetch_pc = "new_context" /\ ~hung
    /\ \E outcome \in AwaitOutcomes :
        /\ context' = IF outcome = "completes" THEN "open" ELSE context
        /\ fetch_pc' = CASE outcome = "completes" -> "new_page"
                         [] outcome = "raises" -> "browser.close"
                         [] OTHER -> fetch_pc
        /\ pending' = IF outcome = "raises" THEN "error" ELSE pending
        /\ hung' = (outcome = "never completes")
    /\ UNCHANGED <<playwright, browser, loaded>>
    /\ FetchFrame

\* arun: page = await context.new_page(), before the try
NewPage ==
    /\ fetch_pc = "new_page" /\ ~hung
    /\ \E outcome \in AwaitOutcomes :
        /\ fetch_pc' = CASE outcome = "completes" -> "goto"
                         [] outcome = "raises" -> "browser.close"
                         [] OTHER -> fetch_pc
        /\ pending' = IF outcome = "raises" THEN "error" ELSE pending
        /\ hung' = (outcome = "never completes")
    /\ UNCHANGED <<Resources, loaded>>
    /\ FetchFrame

\* how a page load can end: a response with a 2xx status, a response with
\* another status (goto returns it all the same), a network error (goto
\* raises), or no end at all
LoadEndings == {"2xx", "non-2xx", "network error", "never completes"}

\* arun: await page.goto(url, ...), whose return value is dropped
Goto ==
    /\ fetch_pc = "goto" /\ ~hung
    /\ \E ending \in LoadEndings, html \in FetchHtmls :
        /\ ending \notin {"2xx", "non-2xx"} => html = <<>>
        /\ loaded' = [status |-> ending, html |-> html]
        /\ fetch_pc' = CASE ending \in {"2xx", "non-2xx"} -> "read"
                         [] ending = "network error" -> "context.close"
                         [] OTHER -> fetch_pc
        /\ pending' = IF ending = "network error" THEN "error" ELSE pending
        /\ hung' = (ending = "never completes")
    /\ UNCHANGED Resources
    /\ FetchFrame

\* arun: the awaits that read the page (title, content, evaluate, the meta
\* tags), then return result; the finally clause follows in every case
ReadPage ==
    /\ fetch_pc = "read" /\ ~hung
    /\ \E outcome \in AwaitOutcomes :
        /\ fetch_pc' = IF outcome = "never completes" THEN fetch_pc ELSE "context.close"
        /\ pending' = IF outcome = "raises" THEN "error" ELSE "return"
        /\ hung' = (outcome = "never completes")
    /\ UNCHANGED <<Resources, loaded>>
    /\ FetchFrame

\* the awaits wait_for's timer runs over: those of arun, until arun has been
\* cancelled
TimerArmed ==
    /\ fetch_pc \in {"new_context", "new_page", "goto", "read", "context.close"}
    /\ pending # "timeout"

\* asyncio.wait_for(crawler.arun(...), timeout=self.timeout) times out: arun
\* is cancelled where it waits and wait_for raises TimeoutError once arun has
\* ended; inside the try that is after the finally clause
WaitForTimeout ==
    /\ hung
    /\ TimerArmed
    /\ pending' = "timeout"
    /\ fetch_pc' = IF fetch_pc \in {"goto", "read"} THEN "context.close" ELSE "browser.close"
    /\ hung' = FALSE
    /\ UNCHANGED <<Resources, loaded>>
    /\ FetchFrame

\* arun's finally: await context.close(); an exception raised here replaces
\* the one on its way
ContextClose ==
    /\ fetch_pc = "context.close" /\ ~hung
    /\ \E outcome \in AwaitOutcomes :
        /\ context' = IF outcome = "completes" THEN "closed" ELSE context
        /\ fetch_pc' = IF outcome = "never completes" THEN fetch_pc ELSE "browser.close"
        /\ pending' = IF outcome = "raises" THEN "error" ELSE pending
        /\ hung' = (outcome = "never completes")
    /\ UNCHANGED <<playwright, browser, loaded>>
    /\ FetchFrame

\* __aexit__: await self.browser.close(), which closes the browser's contexts
\* too; when it raises, playwright.stop() is not reached
BrowserClose ==
    /\ fetch_pc = "browser.close" /\ ~hung
    /\ \E outcome \in AwaitOutcomes :
        /\ browser' = IF outcome = "completes" THEN "closed" ELSE browser
        /\ context' = IF outcome = "completes" /\ context = "open" THEN "closed" ELSE context
        /\ fetch_pc' = CASE outcome = "completes" -> "playwright.stop"
                         [] outcome = "raises" -> "exit"
                         [] OTHER -> fetch_pc
        /\ pending' = IF outcome = "raises" THEN "error" ELSE pending
        /\ hung' = (outcome = "never completes")
    /\ UNCHANGED <<playwright, loaded>>
    /\ FetchFrame

\* __aexit__: await self.playwright.stop()
PlaywrightStop ==
    /\ fetch_pc = "playwright.stop" /\ ~hung
    /\ \E outcome \in AwaitOutcomes :
        /\ playwright' = IF outcome = "completes" THEN "stopped" ELSE playwright
        /\ fetch_pc' = IF outcome = "never completes" THEN fetch_pc ELSE "exit"
        /\ pending' = IF outcome = "raises" THEN "error" ELSE pending
        /\ hung' = (outcome = "never completes")
    /\ UNCHANGED <<browser, context, loaded>>
    /\ FetchFrame

\* the exception class behind what leaves the with block
ExceptionOf(p) == IF p = "timeout" THEN "TimeoutError" ELSE "Exception"

\* the dictionaries scrape_url can return for what leaves the with block
ScrapeResults(url, p, html) ==
    CASE p = "return"  -> SuccessResultsOf(url, {html})
      [] p = "timeout" -> {TimeoutResult(url)}
      [] p = "invalid" -> {InvalidResult(url)}
      [] OTHER         -> {ErrorResult(url)}

\* has the dictionary a "links" entry
HasLinks(result) == "links" \in DOMAIN result

\* scrape_url returns, through one of its except clauses unless the page was
\* read, and deep_crawl handles the dictionary; an exception that no clause
\* catches leaves deep_crawl instead
ScrapeReturn ==
    /\ fetch_pc = "exit"
    /\ IF pending \in {"timeout", "error"} /\ ~CaughtByExceptException(ExceptionOf(pending))
       THEN /\ pc' = "raised"
            /\ UNCHANGED <<domain_page_count, all_results, urls_to_crawl, last_return>>
       ELSE \E result \in ScrapeResults(IF pending = "invalid" THEN current[1]
                                        ELSE normalize_url(current[1])[2],
                                        pending, loaded.html) :
                /\ domain_page_count' = CountAfter(domain_page_count, result)
                /\ all_results' = ResultsAfter(all_results, result)
                /\ urls_to_crawl' =
                     AppendAll(urls_to_crawl,
                               ChildrenOf(result, visited_urls, all_results.domain, current[2]))
                /\ last_return' =
                     [url |-> result.url, success |-> result.success,
                      error |-> ErrorOf(result), links |-> HasLinks(result),
                      load |-> loaded.status, playwright |-> playwright,
                      browser |-> browser, context |-> context]
                /\ pc' = pc
    /\ fetch_pc' = "none"
    /\ current' = <<None, 0>>
    /\ pending' = "none"
    /\ loaded' = NoPage
    /\ playwright' = "none"
    /\ browser' = "none"
    /\ context' = "none"
    /\ UNCHANGED <<Config, visited_urls, scrape_log, sessionVars, laterVars, hung>>

\* deep_crawl's own steps happen before and between its scrape_url calls
FetchNext ==
    \/ fetch_pc = "none" /\ DeepCrawlStart /\ UNCHANGED <<sessionVars, fetchVars, laterVars>>
    \/ fetch_pc = "none" /\ LoopSkip /\ UNCHANGED <<sessionVars, fetchVars, laterVars>>
    \/ fetch_pc = "none" /\ DeepCrawlReturn /\ UNCHANGED <<sessionVars, fetchVars, laterVars>>
    \/ ScrapeCall
    \/ PlaywrightStart
    \/ BrowserLaunch
    \/ NewContext
    \/ NewPage
    \/ Goto
    \/ ReadPage
    \/ WaitForTimeout
    \/ ContextClose
    \/ BrowserClose
    \/ PlaywrightStop
    \/ ScrapeReturn

SpecFetch == FetchInit /\ [][FetchNext]_vars

\* ------------------------------------------------ deep_crawl of a wide site

FanoutMaxDepth == 1

\* the paths of the five pages that the page at path links to and that no
\* other page links to, down to the pages deep_crawl can reach here
FanoutPaths(path) ==
    CASE path = "" -> <<"/1", "/2", "/3", "/4", "/5">>
      [] path = "/1" -> <<"/1/1", "/1/2", "/1/3", "/1/4", "/1/5">>
      [] path = "/2" -> <<"/2/1", "/2/2", "/2/3", "/2/4", "/2/5">>
      [] path = "/3" -> <<"/3/1", "/3/2", "/3/3", "/3/4", "/3/5">>
      [] path = "/4" -> <<"/4/1", "/4/2", "/4/3", "/4/4", "/4/5">>
      [] path = "/5" -> <<"/5/1", "/5/2", "/5/3", "/5/4", "/5/5">>
      [] OTHER -> <<>>

\* the html of the site's page at url: five anchors to new same-domain pages
FanoutHtml(url) ==
    [k \in DOMAIN FanoutPaths(url.path) |-> Url("https://", "a.com", FanoutPaths(url.path)[k])]

\* scrape_url(url) on the site, where every page load succeeds
FanoutScrapeUrl(url) ==
    LET is_valid       == normalize_url(url)[1]
        normalized_url == normalize_url(url)[2]
    IN  IF ~is_valid
        THEN {InvalidResult(url)}
        ELSE SuccessResultsOf(normalized_url, {FanoutHtml(normalized_url)})

\* deep_crawl(A) with a page budget of 3
FanoutInit ==
    /\ start_url = A
    /\ max_depth \in 0..FanoutMaxDepth
    /\ max_pages_per_domain = 3
    /\ pc = "idle"
    /\ visited_urls = {}
    /\ urls_to_crawl = <<>>
    /\ domain_page_count = 0
    /\ all_results = NoResults
    /\ scrape_log = <<>>
    /\ SessionIdle
    /\ FetchIdle
    /\ LaterIdle

\* one iteration of the loop on the site
FanoutScrape ==
    /\ pc = "loop"
    /\ LoopCondition
    /\ LET current_url == Head(urls_to_crawl)[1]
           depth       == Head(urls_to_crawl)[2]
       IN  /\ ~AlreadyVisited(current_url)
           /\ visited_urls' = visited_urls \cup {current_url}
           /\ \E result \in FanoutScrapeUrl(current_url) :
                /\ domain_page_count' = CountAfter(domain_page_count, result)
                /\ all_results' = ResultsAfter(all_results, result)
                /\ urls_to_crawl' =
                     AppendAll(Tail(urls_to_crawl),
                               ChildrenOf(result, visited_urls', all_results.domain, depth))
    /\ UNCHANGED <<Config, pc, scrape_log>>

\* no entry is popped twice on this site, every link being new, so the loop
\* never takes its continue branch
FanoutNext ==
    \/ DeepCrawlStart /\ UNCHANGED <<sessionVars, fetchVars, laterVars>>
    \/ FanoutScrape /\ UNCHANGED <<sessionVars, fetchVars, laterVars>>
    \/ DeepCrawlReturn /\ UNCHANGED <<sessionVars, fetchVars, laterVars>>

SpecFanout == FanoutInit /\ [][FanoutNext]_vars

\* ----------------------------------------------- deep_crawl of a fixed site

SiteMaxDepth == 3
SiteMaxPages == 5

\* the pages of the site
SiteUrls == {A, B, C, D}

\* the documents a page of the site can be
SiteHtmls == { <<>>, <<A>>, <<B>>, <<C>>, <<D>>, <<B, C>>, <<X, D>> }

\* the sites: what is served at each URL, the same at every load
Sites == [SiteUrls -> SiteHtmls]

\* the linear chain A -> B -> C -> D
ChainSite == (A :> <<B>>) @@ (B :> <<C>>) @@ (C :> <<D>>) @@ (D :> <<>>)

\* scrape_url(url) on the site, where every page load succeeds
SiteScrapeUrl(url) ==
    LET is_valid       == normalize_url(url)[1]
        normalized_url == normalize_url(url)[2]
    IN  IF ~is_valid
        THEN {InvalidResult(url)}
        ELSE SuccessResultsOf(normalized_url, {site[normalized_url]})

\* deep_crawl(A) on one of the sites
SiteInit ==
    /\ start_url = A
    /\ max_depth \in 0..SiteMaxDepth
    /\ max_pages_per_domain \in 1..SiteMaxPages
    /\ site \in Sites
    /\ AnalysisIdle
    /\ PoolIdle
    /\ pc = "idle"
    /\ visited_urls = {}
    /\ urls_to_crawl = <<>>
    /\ domain_page_count = 0
    /\ all_results = NoResults
    /\ scrape_log = <<>>
    /\ SessionIdle
    /\ FetchIdle

\* one iteration of the loop that scrapes the popped URL on the site
SiteScrape ==
    /\ pc = "loop"
    /\ LoopCondition
    /\ LET current_url == Head(urls_to_crawl)[1]
           depth       == Head(urls_to_crawl)[2]
       IN  /\ ~AlreadyVisited(current_url)
           /\ visited_urls' = visited_urls \cup {current_url}
           /\ \E result \in SiteScrapeUrl(current_url) :
                /\ domain_page_count' = CountAfter(domain_page_count, result)
                /\ all_results' = ResultsAfter(all_results, result)
                /\ urls_to_crawl' =
                     AppendAll(Tail(urls_to_crawl),
                               ChildrenOf(result, visited_urls', all_results.domain, depth))
    /\ UNCHANGED <<Config, pc, scrape_log>>

SiteNext ==
    \/ DeepCrawlStart /\ UNCHANGED <<sessionVars, fetchVars, laterVars>>
    \/ LoopSkip /\ UNCHANGED <<sessionVars, fetchVars, laterVars>>
    \/ SiteScrape /\ UNCHANGED <<sessionVars, fetchVars, laterVars>>
    \/ DeepCrawlReturn /\ UNCHANGED <<sessionVars, fetchVars, laterVars>>

SpecSite == SiteInit /\ [][SiteNext]_vars

\* ---------------------------------------------- analyze_deep_scrape_results

MaxDomains == 2
MaxPagesPerDomain == 2
MaxTables == 2

\* every list of at most n elements of S
ListsUpTo(S, n) == UNION {[1..k -> S] : k \in 0..n}

\* response_data["tables"] of a page
TableLists == ListsUpTo({"table"}, MaxTables)

\* the successful results of scrape_url, of which the analysis reads "tables"
ScrapedPages == {[success |-> TRUE, tables |-> t] : t \in TableLists}

\* what scraped_content can hold: the dictionaries deep_crawl returns, with
\* pages or for an invalid seed, the entry made of a raised exception, and
\* with perform_deep_crawl off the dictionaries of scrape_url
ScrapedContents ==
    {[success |-> TRUE, domain |-> "a.com", pages |-> p] :
        p \in ListsUpTo(ScrapedPages, MaxPagesPerDomain)}
    \cup {[success |-> FALSE, url |-> SeedBad, error |-> "Invalid URL format"],
          [success |-> FALSE, url |-> A, error |-> "str(result)"]}
    \cup ScrapedPages

\* dict.get(key, default) on a dictionary modelled as a record
Get(dict, key, default) == IF key \in DOMAIN dict THEN dict[key] ELSE default

\* sum of f[1] .. f[Len(f)]
RECURSIVE Sum(_)
Sum(f) == IF f = <<>> THEN 0 ELSE Head(f) + Sum(Tail(f))

\* variant: a page with tables counts once
TablesCountOnce(page) == IF Get(page, "tables", <<>>) # <<>> THEN 1 ELSE 0

\* what one page adds to tables_found: len(page["tables"]) if page.get("tables")
TablesCount(page) == Len(Get(page, "tables", <<>>))

\* variant: an empty page list falls back to the domain result too
DomainPagesOrSelf(domain_result) ==
    LET pages == Get(domain_result, "pages", <<>>)
    IN  IF pages = <<>> THEN <<domain_result>> ELSE pages

\* domain_result.get("pages", [domain_result])
DomainPages(domain_result) == Get(domain_result, "pages", <<domain_result>>)

\* the domain results the loop does not skip, in order
RECURSIVE Successful(_)
Successful(content) ==
    IF content = <<>> THEN <<>>
    ELSE IF Get(Head(content), "success", FALSE)
         THEN <<Head(content)>> \o Successful(Tail(content))
         ELSE Successful(Tail(content))

\* tables_found of domain_insight
DomainTables(domain_result) ==
    LET pages == DomainPages(domain_result)
    IN  Sum([i \in 1..Len(pages) |-> TablesCount(pages[i])])

\* analysis["summary"] and analysis["domain_insights"] as returned
analyze_deep_scrape_results(input) ==
    LET content == input.scraped_content
        kept    == Successful(content)
    IN  [summary |->
            [total_domains |-> Len(content),
             successful_domains |-> Len(kept),
             total_pages |-> Sum([i \in 1..Len(kept) |-> Len(DomainPages(kept[i]))]),
             tables_found |-> Sum([i \in 1..Len(kept) |-> DomainTables(kept[i])])],
         domain_insights |->
            [i \in 1..Len(kept) |->
                [pages_crawled |-> Len(DomainPages(kept[i])),
                 tables_found |-> DomainTables(kept[i])]]]

\* a session dictionary is about to be analysed
AnalysisInit ==
    /\ start_url = A
    /\ max_depth = 2
    /\ max_pages_per_domain = 5
    /\ pc = "idle"
    /\ visited_urls = {}
    /\ urls_to_crawl = <<>>
    /\ domain_page_count = 0
    /\ all_results = NoResults
    /\ scrape_log = <<>>
    /\ SessionIdle
    /\ FetchIdle
    /\ SiteIdle
    /\ PoolIdle
    /\ analysis_input \in
         {[scraped_content |-> c] : c \in ListsUpTo(ScrapedContents, MaxDomains)}
    /\ analysis = NoAnalysis

\* analyze_deep_scrape_results(results) returns
Analyze ==
    /\ analysis = NoAnalysis
    /\ analysis' = analyze_deep_scrape_results(analysis_input)
    /\ UNCHANGED <<max_depth, max_pages_per_domain, crawlVars, sessionVars, fetchVars,
                   siteVars, poolVars, analysis_input>>

AnalysisNext == Analyze

SpecAnalysis == AnalysisInit /\ [][AnalysisNext]_vars

\* ------------------------------------- SearchOrchestrator (duck_duck_go.py)

PoolMaxResults == 4

PoolMaxParagraphs == 1

PoolMaxContent == 2

\* ThreadPoolExecutor(max_workers=3)
max_workers == 3

\* a DuckDuckGo redirect link: "https://duckduckgo.com/y.js?..."
Y == Url("https://", "duckduckgo.com", "/y.js?")

\* the URLs the search results carry
PoolUrls == {A, Y}

\* URLCleaner.clean(url): the URLs it can return. A y.js link is resolved with
\* a HEAD request to where it redirects, and kept when the request fails.
clean(url) ==
    IF url.netloc = "duckduckgo.com" /\ url.path = "/y.js?" THEN {B, url} ELSE {url}

\* the paragraph lists _extract_main_content can return
Contents == {SubSeq(<<"p1", "p2", "p3">>, 1, n) : n \in 0..PoolMaxContent}

\* WebScraper.scrape(url): the dictionaries it can return
scrape(url) ==
    {[url |-> cleaned_url, title |-> "title", content |-> content, success |-> TRUE] :
        cleaned_url \in clean(url), content \in Contents}
    \cup
    {[url |-> cleaned_url, title |-> "Failed to scrape", content |-> <<error>>,
      success |-> FALSE] :
        cleaned_url \in clean(url),
        error \in {"Request error: str(e)", "Unexpected error: str(e)"}}

NoSiteData == [url |-> None, title |-> "", content |-> <<>>, success |-> FALSE]

\* SearchOrchestrator.execute(query, num_results, max_paragraphs) has called
\* searcher.search and holds its search_data
PoolInit ==
    /\ start_url = A
    /\ max_depth = 2
    /\ max_pages_per_domain = 5
    /\ pc = "idle"
    /\ visited_urls = {}
    /\ urls_to_crawl = <<>>
    /\ domain_page_count = 0
    /\ all_results = NoResults
    /\ scrape_log = <<>>
    /\ SessionIdle
    /\ FetchIdle
    /\ SiteIdle
    /\ AnalysisIdle
    /\ max_paragraphs \in 0..PoolMaxParagraphs
    /\ search_data \in {[results |-> r] : r \in ListsUpTo(PoolUrls, PoolMaxResults)}
    /\ execute_pc = "execute"
    /\ future_to_url = <<>>
    /\ scraped_data = <<>>

otherVars == <<max_depth, max_pages_per_domain, crawlVars, sessionVars, fetchVars,
               siteVars, analysisVars>>

\* if not search_data["results"]: execute returns with "scraped_data": []
ExecuteNoResults ==
    /\ execute_pc = "execute"
    /\ search_data.results = <<>>
    /\ execute_pc' = "done"
    /\ UNCHANGED <<otherVars, max_paragraphs, search_data, future_to_url, scraped_data>>

\* execute calls _scrape_results, which creates the executor
ExecuteScrape ==
    /\ execute_pc = "execute"
    /\ search_data.results # <<>>
    /\ execute_pc' = "submit"
    /\ scraped_data' = <<>>
    /\ UNCHANGED <<otherVars, max_paragraphs, search_data, future_to_url>>

\* the dictionary comprehension submits the next search result's scrape
Submit ==
    /\ execute_pc = "submit"
    /\ LET i == Len(future_to_url) + 1
       IN  /\ future_to_url' = Append(future_to_url,
                [result |-> search_data.results[i], state |-> "pending",
                 site_data |-> NoSiteData])
           /\ execute_pc' = IF i = Len(search_data.results) THEN "collect" ELSE "submit"
    /\ UNCHANGED <<otherVars, max_paragraphs, search_data, scraped_data>>

Running == {i \in DOMAIN future_to_url : future_to_url[i].state = "running"}

\* a free worker thread takes the oldest work item of the queue
WorkerStart(i) ==
    /\ i \in DOMAIN future_to_url
    /\ future_to_url[i].state = "pending"
    /\ \A j \in 1..(i-1) : future_to_url[j].state # "pending"
    /\ Cardinality(Running) < max_workers
    /\ future_to_url' = [future_to_url EXCEPT ![i].state = "running"]
    /\ UNCHANGED <<otherVars, max_paragraphs, search_data, execute_pc, scraped_data>>

\* scraper.scrape returns in worker i: the future holds its dictionary
WorkerReturns(i) ==
    /\ i \in Running
    /\ \E site_data \in scrape(future_to_url[i].result) :
        future_to_url' = [future_to_url EXCEPT ![i].state = "done",
                                               ![i].site_data = site_data]
    /\ UNCHANGED <<otherVars, max_paragraphs, search_data, execute_pc, scraped_data>>

\* scraper.scrape raises in worker i: the future holds the exception
WorkerRaises(i) ==
    /\ i \in Running
    /\ future_to_url' = [future_to_url EXCEPT ![i].state = "raised"]
    /\ UNCHANGED <<otherVars, max_paragraphs, search_data, execute_pc, scraped_data>>

\* site_data['content'] = site_data['content'][:max_paragraphs] when longer
Truncated(site_data, limit) ==
    IF Len(site_data.content) > limit
    THEN [site_data EXCEPT !.content = SubSeq(@, 1, limit)]
    ELSE site_data

\* the entry appended when future.result() raises
FailedToScrape(url) ==
    [url |-> url, title |-> "Failed to scrape", content |-> <<"Error: str(e)">>,
     success |-> FALSE]

\* one iteration of `for future in future_to_url`: future.result() waits for
\* the future, in the order of submission; the dictionary the future holds is
\* the one that is cut and appended
Collect ==
    /\ execute_pc = "collect"
    /\ LET i == Len(scraped_data) + 1
           f == future_to_url[i]
       IN  /\ f.state \in {"done", "raised"}
           /\ IF f.state = "done"
              THEN /\ scraped_data' = Append(scraped_data,
                                             Truncated(f.site_data, max_paragraphs))
                   /\ future_to_url' =
                        [future_to_url EXCEPT ![i].site_data =
                            Truncated(f.site_data, max_paragraphs)]
              ELSE /\ scraped_data' = Append(scraped_data, FailedToScrape(f.result))
                   /\ UNCHANGED future_to_url
           /\ execute_pc' = IF i = Len(future_to_url) THEN "exit" ELSE "collect"
    /\ UNCHANGED <<otherVars, max_paragraphs, search_data>>

\* the with block is left (the executor shuts down once every worker is done)
\* and scraped_data is returned
ScrapeResultsReturn ==
    /\ execute_pc = "exit"
    /\ \A i \in DOMAIN future_to_url : future_to_url[i].state \in {"done", "raised"}
    /\ execute_pc' = "done"
    /\ UNCHANGED <<otherVars, max_paragraphs, search_data, future_to_url, scraped_data>>

PoolNext ==
    \/ ExecuteNoResults
    \/ ExecuteScrape
    \/ Submit
    \/ \E i \in 1..PoolMaxResults : WorkerStart(i)
    \/ \E i \in 1..PoolMaxResults : WorkerReturns(i)
    \/ \E i \in 1..PoolMaxResults : WorkerRaises(i)
    \/ Collect
    \/ ScrapeResultsReturn

SpecPool == PoolInit /\ [][PoolNext]_vars

\* ------------------------------------------------------------ properties

\* all_results["pages"], empty while there is no crawl result
Pages == IF all_results.success THEN all_results.pages ELSE <<>>

SeedValid == normalize_url(start_url)[1]

LogIdx == 1..Len(scrape_log)

\* the number of scrape_url calls made for url
CallsFor(url) == Cardinality({i \in LogIdx : scrape_log[i].url = url})

\* the page of all_results["pages"] that the i-th call returned
PageIdxOf(i) == Cardinality({j \in 1..i : scrape_log[j].success})

\* C1: in every state of deep_crawl, and in the result it returns, `pages`
\* holds at most max_pages_per_domain entries.
C1_PagesWithinBudget == Len(Pages) <= max_pages_per_domain

\* a crawl that returned with the budget exhausted, a failed fetch on the way
\* and URLs left in the queue
C1_Witness ==
    /\ pc = "done"
    /\ max_pages_per_domain >= 2
    /\ Len(Pages) = max_pages_per_domain
    /\ urls_to_crawl # <<>>
    /\ \E i \in LogIdx : ~scrape_log[i].success

\* the run of the cyclic site A -> B -> A: A's page was served and links to B,
\* and B's page, when served, links to A
CycleRun ==
    /\ max_depth = 3
    /\ max_pages_per_domain = 10
    /\ Len(Pages) >= 1
    /\ Pages[1].url = A
    /\ Pages[1].html = <<B>>
    /\ \A k \in 1..Len(Pages) : Pages[k].url = B => Pages[k].html = <<A>>

\* C2: within one deep_crawl scrape_url is called at most once per URL,
\* whatever the links, the queue and the fetch outcomes; on the cyclic site
\* A -> B -> A with max_depth 3 and max_pages 10 the finished crawl has called
\* it exactly once for A and exactly once for B (B is reached through A's
\* page; the seed itself is called exactly once whatever its fetch gives).
C2_AtMostOnce ==
    /\ \A i, j \in LogIdx : scrape_log[i].url = scrape_log[j].url => i = j
    /\ (pc = "done" /\ CycleRun) => (CallsFor(A) = 1 /\ CallsFor(B) = 1)
    /\ (pc = "done" /\ SeedValid /\ max_pages_per_domain >= 1) =>
          CallsFor(normalize_url(start_url)[2]) = 1

\* the cyclic run finished with both pages served
C2_Witness ==
    /\ pc = "done"
    /\ CycleRun
    /\ Len(Pages) = 2
    /\ Pages[2].url = B

\* C3: every (url, depth) enqueued or fetched has 0 <= depth <= max_depth, and
\* a page fetched at depth max_depth enqueues nothing.
C3_DepthBound ==
    /\ \A k \in 1..Len(urls_to_crawl) :
            urls_to_crawl[k][2] >= 0 /\ urls_to_crawl[k][2] <= max_depth
    /\ \A i \in LogIdx :
            /\ scrape_log[i].depth >= 0 /\ scrape_log[i].depth <= max_depth
            /\ scrape_log[i].depth = max_depth => scrape_log[i].enqueued = <<>>
            /\ \A k \in 1..Len(scrape_log[i].enqueued) :
                    /\ scrape_log[i].enqueued[k][2] = scrape_log[i].depth + 1
                    /\ scrape_log[i].enqueued[k][2] <= max_depth

\* a page served at depth max_depth >= 1 whose links are new and same-domain
C3_Witness ==
    \E i \in LogIdx :
        /\ scrape_log[i].success
        /\ max_depth >= 1
        /\ scrape_log[i].depth = max_depth
        /\ \E l \in Range(Pages[PageIdxOf(i)].links) :
               LinkWanted(l, {scrape_log[j].url : j \in 1..i}, all_results.domain)

\* C4: a failed fetch inside deep_crawl still appends a PageResult for that
\* URL to `pages`, and the failed page adds no child links to the queue.
C4_FailedPageRecorded ==
    \A i \in LogIdx :
        ~scrape_log[i].success =>
            /\ \E k \in 1..Len(Pages) :
                   Pages[k].url = scrape_log[i].url /\ ~Pages[k].success
            /\ scrape_log[i].enqueued = <<>>

\* the scrape_url calls that started a browser
Launches == {i \in LogIdx : scrape_log[i].launched}

\* C5: a single deep_crawl performs at most max_pages_per_domain page
\* fetches, however many URLs stay queued and however many fetches fail.
C5_FetchesWithinBudget == Cardinality(Launches) <= max_pages_per_domain

\* C6: the page budget is one counter for the whole crawl, never reset: it
\* counts the pages collected at every depth, and once it has reached
\* max_pages_per_domain the crawl fetches nothing more and returns, the queue
\* left as it is.
C6_GlobalBudget ==
    /\ [](domain_page_count = Cardinality({i \in LogIdx : scrape_log[i].success}))
    /\ [][ /\ domain_page_count' >= domain_page_count
           /\ (pc = "loop" /\ domain_page_count >= max_pages_per_domain) =>
                 /\ pc' = "done"
                 /\ UNCHANGED <<scrape_log, urls_to_crawl, visited_urls, all_results>>
           /\ pc = "done" => UNCHANGED <<scrape_log, urls_to_crawl>> ]_vars

\* a crawl that returned on the budget, its pages collected at two depths, an
\* unvisited URL still queued
C6_Witness ==
    /\ pc = "done"
    /\ max_pages_per_domain >= 2
    /\ domain_page_count = max_pages_per_domain
    /\ \E k \in 1..Len(urls_to_crawl) : urls_to_crawl[k][1] \notin visited_urls
    /\ \E i, j \in LogIdx :
          /\ scrape_log[i].success /\ scrape_log[j].success
          /\ scrape_log[i].depth = 0 /\ scrape_log[j].depth = 1

\* s without the entries whose URL an earlier entry holds
RECURSIVE FirstOccurrences(_)
FirstOccurrences(s) ==
    IF s = <<>> THEN <<>>
    ELSE LET init == SubSeq(s, 1, Len(s) - 1)
             last == s[Len(s)]
         IN  IF \E k \in 1..Len(init) : init[k][1] = last[1]
             THEN FirstOccurrences(init)
             ELSE Append(FirstOccurrences(init), last)

RECURSIVE EnqueuedUpTo(_)
\* the entries the first n calls appended to the queue, in order
EnqueuedUpTo(n) ==
    IF n = 0 THEN <<>> ELSE EnqueuedUpTo(n - 1) \o scrape_log[n].enqueued

\* every entry ever put in the queue, in the order it was put there
EnqueueOrder ==
    << <<normalize_url(start_url)[2], 0>> >> \o EnqueuedUpTo(Len(scrape_log))

\* the (url, depth) of the calls, in call order
FetchOrder == [i \in LogIdx |-> <<scrape_log[i].url, scrape_log[i].depth>>]

\* C7: URLs are fetched in FIFO enqueue order: the queue is the tail of the
\* enqueue order, the fetches are the popped entries in that order (a URL's
\* later entries skipped), and so the depth never decreases along the fetches
\* and the pages, and nothing still queued is shallower than a fetched URL.
C7_FifoOrder ==
    (pc \in {"loop", "done"} /\ SeedValid) =>
        LET popped == Len(EnqueueOrder) - Len(urls_to_crawl)
        IN  /\ popped >= 0
            /\ SubSeq(EnqueueOrder, popped + 1, Len(EnqueueOrder)) = urls_to_crawl
            /\ FirstOccurrences(SubSeq(EnqueueOrder, 1, popped)) = FetchOrder
            /\ \A i, j \in LogIdx : i < j => scrape_log[i].depth <= scrape_log[j].depth
            /\ \A i \in LogIdx : \A k \in 1..Len(urls_to_crawl) :
                   scrape_log[i].depth <= urls_to_crawl[k][2]
            /\ \A i \in LogIdx : scrape_log[i].success =>
                   Pages[PageIdxOf(i)].url = scrape_log[i].url

\* fetches at three depths, the second level holding two pages, with a
\* deeper entry queued behind
C7_Witness ==
    /\ \E i, j \in LogIdx : i < j /\ scrape_log[i].depth = 1 /\ scrape_log[j].depth = 1
    /\ \E i \in LogIdx : scrape_log[i].depth = 2
    /\ \E i \in LogIdx : Len(scrape_log[i].enqueued) >= 2

\* the entries page i enqueues when its links are taken in document order
DocumentOrderEntries(i) ==
    LET page  == Pages[PageIdxOf(i)]
        doc   == AnchorLinks(page.html, page.url)
        first == FirstOccurrences([k \in 1..Len(doc) |-> <<doc[k]>>])
        links == [k \in 1..Len(first) |-> first[k][1]]
    IN  IF BelowMaxDepth(scrape_log[i].depth)
        THEN NewEntries(links, {scrape_log[j].url : j \in 1..i}, all_results.domain,
                        scrape_log[i].depth)
        ELSE <<>>

\* C8: the links of a page are enqueued in their document order on that page
\* (so that the same html inputs always give the same fetch order).
C8_DocumentOrder ==
    \A i \in LogIdx :
        scrape_log[i].success => scrape_log[i].enqueued = DocumentOrderEntries(i)

\* C9: whenever the seed passes validation the result of deep_crawl has
\* success = TRUE, whatever number of page fetches failed.
C9_ValidSeedSucceeds ==
    (pc \in {"loop", "done"} /\ SeedValid) =>
        /\ all_results.success = TRUE
        /\ all_results.start_url = normalize_url(start_url)[2]

\* a returned crawl in which at least two fetches failed, more than were served
C9_Witness ==
    /\ pc = "done"
    /\ SeedValid
    /\ Cardinality({i \in LogIdx : ~scrape_log[i].success}) >= 2
    /\ Cardinality({i \in LogIdx : ~scrape_log[i].success}) > Len(Pages)

\* C10: no browser is started for a URL that fails normalize_url: deep_crawl
\* on an invalid seed returns the failure result with no scrape_url call, and
\* scrape_url on an invalid URL returns success = FALSE with
\* "Invalid URL format" without a launch.
C10_NoFetchForInvalid ==
    /\ \A i \in LogIdx :
          /\ scrape_log[i].launched => normalize_url(scrape_log[i].url)[1]
          /\ ~normalize_url(scrape_log[i].url)[1] =>
                /\ ~scrape_log[i].success
                /\ scrape_log[i].error = "Invalid URL format"
    /\ (pc = "done" /\ ~SeedValid) =>
          /\ scrape_log = <<>>
          /\ all_results = [success |-> FALSE, url |-> start_url,
                            error |-> "Invalid URL format"]

\* a discovered link that fails validation was handed to scrape_url
C10_Witness ==
    \E i \in LogIdx : ~normalize_url(scrape_log[i].url)[1]


\* the task a coroutine would be had it run alone on the event loop and been
\* handed the page loads of log in order
RECURSIVE Feed(_, _)
Feed(ts, log) ==
    IF log = <<>> THEN ts ELSE Feed(Resume(ts, 1, Head(log)), Tail(log))

Alone(url, log) == Feed(Begin(<<NewTask(url)>>, 1), log)[1]

Content == session_result.scraped_content

Returned == session_pc = "done" /\ search_results # <<>>

RaisedTasks == {t \in DOMAIN tasks : tasks[t].pc = "raised"}

\* C11: a task of search_and_deep_scrape that raises is kept as the failed
\* entry {success false, the task's url, the error}; the raise leaves the
\* session awaiting and every sibling as it was, and the siblings' entries
\* are the dictionaries their crawls returned.
C11_RaiseContained ==
    /\ [](Returned =>
            \A t \in DOMAIN tasks :
                Content[t] = IF t \in RaisedTasks
                             THEN [success |-> FALSE, url |-> search_results[t],
                                   error |-> "str(result)"]
                             ELSE Alone(tasks[t].url, tasks[t].log).all_results)
    /\ [][\A t \in DOMAIN tasks :
            (t \notin RaisedTasks /\ tasks'[t].pc = "raised") =>
                /\ session_pc' = session_pc
                /\ \A u \in DOMAIN tasks \ {t} : tasks'[u] = tasks[u]]_vars

\* a task raised, its sibling crawled a page, and the session returned
C11_Witness ==
    /\ Returned
    /\ \E t, u \in DOMAIN tasks :
        /\ t \in RaisedTasks
        /\ Content[u].success
        /\ Len(tasks[u].log) > 0
        /\ perform_deep_crawl => Len(Content[u].pages) > 0


\* C12: when the search brings no result the session returns success false
\* with an error and empty search_results and scraped_content, and no crawl
\* or scrape coroutine was created.
C12_EmptySearch ==
    (session_pc # "search" /\ search_results = <<>>) =>
        /\ session_pc = "done"
        /\ session_result.success = FALSE
        /\ session_result.error = "No search results found"
        /\ session_result.search_results = <<>>
        /\ session_result.scraped_content = <<>>
        /\ tasks = <<>>

\* the search came back empty
C12_Witness == session_pc = "done" /\ search_results = <<>>

\* C13: a session whose search returned at least one result returns success
\* true, whatever the crawls ended in.
C13_SessionSucceeds == Returned => session_result.success = TRUE

\* two results were searched and neither crawl succeeded: one raised and one
\* had an invalid seed
C13_Witness ==
    /\ Returned
    /\ Len(search_results) = 2
    /\ \A t \in DOMAIN tasks : ~Content[t].success
    /\ RaisedTasks # {}
    /\ \E t \in DOMAIN tasks : tasks[t].pc = "done"


\* C14: the crawls running side by side share no mutable state: at every
\* point of every interleaving a crawl's locals and its result are those it
\* would have had running alone with the same page loads.
C14_Isolation ==
    \A t \in DOMAIN tasks :
        tasks[t].pc \in {"scraping", "done"} =>
            tasks[t] = Alone(tasks[t].url, tasks[t].log)

\* two deep crawls of the same seed ran side by side, each loaded two pages,
\* and their page loads ended differently
C14_Witness ==
    /\ perform_deep_crawl
    /\ Len(tasks) = 2
    /\ tasks[1].url = tasks[2].url
    /\ \A t \in DOMAIN tasks : tasks[t].pc = "done" /\ Len(tasks[t].log) = 2
    /\ tasks[1].all_results # tasks[2].all_results
    /\ Len(tasks[1].all_results.pages) = 2


Outstanding(t) == tasks[t].pc \in {"created", "scraping"}

Returns == last_return.url # None

\* C16: scrape_url returns success false with an error and without links
\* whenever the page load ended in a network error, in a response whose
\* status is not 2xx, or in a timeout.
C16_FailedLoadFails ==
    (Returns /\ last_return.load \in {"network error", "non-2xx", "never completes"}) =>
        /\ ~last_return.success
        /\ last_return.error # ""
        /\ ~last_return.links

\* the part of C16 that the code keeps: network errors and timeouts
FailedLoadFailsButStatus ==
    (Returns /\ last_return.load \in {"network error", "never completes"}) =>
        /\ ~last_return.success
        /\ last_return.error # ""
        /\ ~last_return.links

\* C17: when scrape_url returns, the Playwright driver, the browser and the
\* context it started are closed, on every path.
C17_ResourcesClosed ==
    Returns =>
        /\ last_return.playwright # "started"
        /\ last_return.browser # "open"
        /\ last_return.context # "open"

\* C18: a wait that never completes is always under the timeout: no page
\* and no browser operation can block scrape_url for ever.
C18_NoUnboundedWait == hung => TimerArmed

C20_ExactlyThreePages == pc = "done" => Len(Pages) = 3

\* C20, amended: exactly 3 pages for every max_depth of at least 1; with
\* max_depth 0 the seed's links are not followed and the seed's page is the
\* only one.
C20_ThreePagesBelowSeed ==
    /\ Len(Pages) <= 3
    /\ pc = "done" => Len(Pages) = IF max_depth = 0 THEN 1 ELSE 3

\* the crawl returned its 3 pages with links still queued
C20_Witness ==
    /\ pc = "done"
    /\ max_depth >= 1
    /\ Len(Pages) = 3
    /\ Len(urls_to_crawl) >= 3
    /\ \A i \in 1..3 : Len(Pages[i].links) = 5


\* the links of the site's page at u, as extract_links gives them
SiteLinks(u) == Range(AnchorLinks(site[u], u))

\* the URLs at link distance at most k from the seed
RECURSIVE Within(_)
Within(k) ==
    IF k = 0 THEN {normalize_url(start_url)[2]}
    ELSE Within(k - 1) \cup UNION {SiteLinks(u) : u \in Within(k - 1)}

PageUrls == [i \in 1..Len(Pages) |-> Pages[i].url]

\* C21: when every fetch succeeds and the page budget is not reached,
\* deep_crawl returns pages for exactly the URLs at link distance at most
\* max_depth from the seed and fetches no other; on the chain A -> B -> C -> D
\* with max_depth 1 it returns A and B, and C and D are never fetched.
C21_ExactlyWithinDepth ==
    /\ (pc = "done" /\ domain_page_count < max_pages_per_domain) =>
          /\ Range(PageUrls) = Within(max_depth)
          /\ visited_urls = Within(max_depth)
    /\ (pc = "done" /\ site = ChainSite /\ max_depth = 1 /\ max_pages_per_domain >= 2) =>
          /\ PageUrls = <<A, B>>
          /\ visited_urls = {A, B}

\* the chain was crawled with max_depth 1 and a budget left over
C21_Witness ==
    /\ pc = "done"
    /\ site = ChainSite
    /\ max_depth = 1
    /\ domain_page_count < max_pages_per_domain
    /\ PageUrls = <<A, B>>
    /\ Pages[2].links = <<C>>


Analysed == analysis # NoAnalysis

AnalysedContent == analysis_input.scraped_content

\* every successful entry is a domain crawl result
DomainResultsOnly ==
    \A i \in DOMAIN AnalysedContent :
        AnalysedContent[i].success => "pages" \in DOMAIN AnalysedContent[i]

\* the pages of a domain result, none for a failed one
PagesIn(r) == IF "pages" \in DOMAIN r THEN r.pages ELSE <<>>

TablesIn(r) == Sum([k \in 1..Len(PagesIn(r)) |-> Len(PagesIn(r)[k].tables)])

\* two domains: one with 2 pages of 1 table each, one failed
TwoDomains ==
    <<[success |-> TRUE, domain |-> "a.com",
       pages |-> <<[success |-> TRUE, tables |-> <<"table">>],
                   [success |-> TRUE, tables |-> <<"table">>]>>],
      [success |-> FALSE, url |-> A, error |-> "str(result)"]>>

\* C22: the analysis reports the number of domain results, the number of them
\* with success true, the sum of their pages and the sum of the table counts
\* of all pages; for two domains, one with 2 pages of 1 table each and one
\* failed, that is 2, 1, 2 and 2.
C22_Aggregation ==
    /\ (Analysed /\ DomainResultsOnly) =>
          /\ analysis.summary.total_domains = Len(AnalysedContent)
          /\ analysis.summary.successful_domains =
                Cardinality({i \in DOMAIN AnalysedContent : AnalysedContent[i].success})
          /\ analysis.summary.total_pages =
                Sum([i \in DOMAIN AnalysedContent |-> Len(PagesIn(AnalysedContent[i]))])
          /\ analysis.summary.tables_found =
                Sum([i \in DOMAIN AnalysedContent |-> TablesIn(AnalysedContent[i])])
    /\ (Analysed /\ AnalysedContent = TwoDomains) =>
          analysis.summary = [total_domains |-> 2, successful_domains |-> 1,
                              total_pages |-> 2, tables_found |-> 2]

\* the two domains were analysed
C22_Witness == Analysed /\ AnalysedContent = TwoDomains


\* the anchors '#top', 'mailto:x@y.com', '/page1', 'report.pdf'
FourAnchors == <<HrefTop, HrefMailto, HrefPage1, HrefPdf>>

\* C23: the links of every successful page hold no duplicates and only
\* absolute http(s) URLs of the page's domain that are not fragment,
\* javascript:, mailto: or tel: references and do not end in a listed file
\* extension; the four anchors on https://a.com give exactly
\* https://a.com/page1.
C23_LinksFiltered ==
    \A i \in 1..Len(Pages) :
        LET links == Pages[i].links
        IN  /\ \A j, k \in 1..Len(links) : links[j] = links[k] => j = k
            /\ \A j \in 1..Len(links) :
                /\ links[j].scheme \in {"http://", "https://"}
                /\ get_domain(links[j]) = get_domain(Pages[i].url)
                /\ links[j].path \notin FragmentRefs
                /\ links[j].path \notin FilePaths
            /\ (Pages[i].url = A /\ Pages[i].html = FourAnchors) =>
                  links = <<Url("https://", "a.com", "/page1")>>

\* the part of C23 that the code keeps: everything but the scheme
LinksFilteredButScheme ==
    \A i \in 1..Len(Pages) :
        LET links == Pages[i].links
        IN  /\ \A j, k \in 1..Len(links) : links[j] = links[k] => j = k
            /\ \A j \in 1..Len(links) :
                /\ StartsWithHttp(links[j])
                /\ get_domain(links[j]) = get_domain(Pages[i].url)
                /\ links[j].path \notin FragmentRefs
                /\ links[j].path \notin FilePaths
            /\ (Pages[i].url = A /\ Pages[i].html = FourAnchors) =>
                  links = <<Url("https://", "a.com", "/page1")>>


SearchFailed == search_end \in SearchEndings \ {"parsed"}

\* C24: the search passes no exception on: when the request ends in a
\* transport error, an HTTP error status or a parsing error it returns the
\* empty list, and the session returns 'No search results found'.
C24_SearchErrorsContained ==
    /\ session_pc # "search" => search_end \in SearchEndings
    /\ SearchFailed =>
          /\ session_pc = "done"
          /\ search_results = <<>>
          /\ tasks = <<>>
          /\ session_result.success = FALSE
          /\ session_result.error = "No search results found"

\* the parser raised on the page of results
C24_Witness == search_end = "parsing error" /\ session_pc = "done"


\* the network authority of the normalized seed
SeedAuthority == normalize_url(start_url)[2].netloc

\* C25: the crawl stays on the seed's network authority: every URL queued,
\* every URL handed to scrape_url and the URL of every page returned has the
\* netloc of the normalized seed.
C25_SameDomain ==
    (pc \in {"loop", "done"} /\ SeedValid) =>
        /\ \A k \in 1..Len(urls_to_crawl) : urls_to_crawl[k][1].netloc = SeedAuthority
        /\ \A i \in LogIdx :
            /\ scrape_log[i].url.netloc = SeedAuthority
            /\ \A k \in 1..Len(scrape_log[i].enqueued) :
                    scrape_log[i].enqueued[k][1].netloc = SeedAuthority
        /\ \A k \in 1..Len(Pages) : Pages[k].url.netloc = SeedAuthority

\* a page that links to another authority and to D was crawled, and D after it
C25_Witness ==
    /\ pc = "done"
    /\ \E k \in 1..Len(Pages) : Pages[k].html = <<X, W, D>>
    /\ \E i \in LogIdx : scrape_log[i].url = D /\ scrape_log[i].success


\* the most anchors, and so links, a page holds
LinkBound == CHOOSE n \in {Len(h) : h \in Htmls} : \A h \in Htmls : Len(h) <= n

\* what is left to do: the queued entries, and for each page the budget still
\* allows the links it can add
Rank == Len(urls_to_crawl) + (max_pages_per_domain - domain_page_count) * (LinkBound + 1)

\* C26: deep_crawl terminates whatever the pages link to and whichever
\* fetches fail: every iteration pops an entry, only a successful fetch adds
\* entries, and the page budget caps the successful fetches, so what is left
\* to do shrinks with every iteration and the crawl returns.
C26_Terminates ==
    /\ [](pc = "loop" => (Rank >= 0 /\ domain_page_count <= max_pages_per_domain))
    /\ [][(pc = "loop" /\ pc' = "loop") => Rank' < Rank]_vars
    /\ <>(pc = "done")

\* a crawl returned after a failed fetch and a page that links back to the
\* seed
C26_Witness ==
    /\ pc = "done"
    /\ \E i \in LogIdx : ~scrape_log[i].success
    /\ \E k \in 1..Len(Pages) : Pages[k].url # A /\ Pages[k].html = <<A>>

\* the scrape_url call that this step logged failed
FailedFetchStep ==
    /\ Len(scrape_log') = Len(scrape_log) + 1
    /\ ~scrape_log'[Len(scrape_log')].success

\* C27: in every state of deep_crawl domain_page_count equals the length of
\* `pages` and every entry of `pages` has success=true; a failed fetch leaves
\* the counter and `pages` as they were and only adds its URL to the visited
\* set.
C27_CounterMatchesPages ==
    /\ [](/\ domain_page_count = Len(Pages)
          /\ \A k \in 1..Len(Pages) : Pages[k].success)
    /\ [][FailedFetchStep =>
            /\ domain_page_count' = domain_page_count
            /\ all_results' = all_results
            /\ urls_to_crawl' = Tail(urls_to_crawl)
            /\ visited_urls' = visited_urls \cup {Head(urls_to_crawl)[1]}
            /\ Head(urls_to_crawl)[1] \notin visited_urls]_vars

\* a crawl that kept one page and then had a fetch fail
C27_Witness ==
    /\ pc = "loop"
    /\ Len(scrape_log) >= 2
    /\ ~scrape_log[Len(scrape_log)].success
    /\ domain_page_count = 1
    /\ Len(Pages) = 1

\* what search result t's coroutine returns when it is handed the page loads
\* that task t was handed, or the failed entry of a coroutine that raised
EntryFor(t) ==
    IF tasks[t].pc = "raised"
    THEN [success |-> FALSE, url |-> search_results[t], error |-> "str(result)"]
    ELSE Alone(search_results[t], tasks[t].log).all_results

\* C28: for a non-empty search result list, scraped_content has exactly one
\* entry per search result and entry i is the result for search_results[i],
\* whatever order the tasks complete in and whichever of them fail.
C28_OneEntryPerResult ==
    Returned =>
        /\ Len(Content) = Len(search_results)
        /\ session_result.search_results = search_results
        /\ \A t \in 1..Len(search_results) : Content[t] = EntryFor(t)

\* two different search results, the first of which raised while the second
\* was crawled
C28_Witness ==
    /\ Returned
    /\ Len(search_results) = 2
    /\ search_results[1] # search_results[2]
    /\ RaisedTasks = {1}
    /\ Content[2].success
    /\ Len(tasks[2].log) >= 1

\* the seed is valid and its fetch, the first of the crawl, failed
SeedFetchFailed ==
    /\ SeedValid
    /\ Len(scrape_log) >= 1
    /\ ~scrape_log[1].success

\* the summary analyze_deep_scrape_results gives for the crawl's result alone
SummaryOfCrawl ==
    analyze_deep_scrape_results([scraped_content |-> <<all_results>>]).summary

\* C29: when the fetch of a valid seed fails, deep_crawl makes exactly one
\* fetch and returns success=true with an empty `pages`;
\* analyze_deep_scrape_results counts that domain in successful_domains and
\* adds 0 to total_pages.
C29_FailedSeedCountsAsSuccess ==
    SeedFetchFailed =>
        /\ Len(scrape_log) = 1
        /\ scrape_log[1].url = normalize_url(start_url)[2]
        /\ urls_to_crawl = <<>>
        /\ all_results.success
        /\ all_results.pages = <<>>
        /\ SummaryOfCrawl.total_domains = 1
        /\ SummaryOfCrawl.successful_domains = 1
        /\ SummaryOfCrawl.total_pages = 0
        /\ SummaryOfCrawl.tables_found = 0

\* deep_crawl has returned after the failed fetch of its valid seed
C29_Witness ==
    /\ pc = "done"
    /\ SeedFetchFailed
    /\ all_results.success

\* _scrape_results has returned
Scraped == execute_pc = "done" /\ search_data.results # <<>>

\* entry i of scraped_data is the one of search result i: the dictionary its
\* worker returned, or the failed entry with the result's url when it raised
EntryOfResult(i) ==
    LET f == future_to_url[i]
    IN  /\ f.result = search_data.results[i]
        /\ IF f.state = "raised"
           THEN /\ ~scraped_data[i].success
                /\ scraped_data[i].url = search_data.results[i]
           ELSE /\ scraped_data[i] \in
                     {Truncated(d, max_paragraphs) : d \in scrape(search_data.results[i])}
                /\ scraped_data[i] = f.site_data

\* one entry per search result, in search-result order
OneEntryPerResultInOrder ==
    Scraped =>
        /\ Len(scraped_data) = Len(search_data.results)
        /\ \A i \in 1..Len(scraped_data) : EntryOfResult(i)

\* C30: _scrape_results returns exactly one entry per search result, in
\* search-result order, for every order in which the workers finish; a worker
\* that raises yields the failed entry with that result's url at its position,
\* and no entry has more than max_paragraphs content items.
C30_PoolEntries ==
    /\ OneEntryPerResultInOrder
    /\ Scraped =>
         \A i \in 1..Len(scraped_data) : Len(scraped_data[i].content) <= max_paragraphs

\* what does hold of the content: an entry a worker returned is cut to
\* max_paragraphs items, the entry of a worker that raised has one item
ContentCutUnlessRaised ==
    Scraped =>
        \A i \in 1..Len(scraped_data) :
            IF future_to_url[i].state = "raised"
            THEN Len(scraped_data[i].content) = 1
            ELSE Len(scraped_data[i].content) <= max_paragraphs

====
